---------------------------- MODULE Spec2Model ----------------------------
(***************************************************************************)
(* A model of src/app.py: the opening-library parser (parse_assets) and    *)
(* the playback controller (OpeningViewerApp with BoardCanvas).            *)
(*                                                                         *)
(* Text is modelled character by character: a line is a sequence of        *)
(* one-character strings.  The rules engine (python-chess) is an external  *)
(* collaborator; it is modelled by a small engine of kings and pawns on a  *)
(* board of three files and five ranks that has everything the program     *)
(* asks of it: SAN resolution, UCI names, FEN snapshots, captures,         *)
(* en passant and check.                                                   *)
(***************************************************************************)
EXTENDS Integers, Sequences, FiniteSets, TLC

VARIABLES
    \* ---- parse_assets: one pass over the files of the assets directory
    files,              \* the texts of the *.txt files, each a sequence of lines
    file_no,            \* index of the file being scanned (Len(files)+1: returned)
    line_no,            \* index of the next line of that file
    cur_opening,        \* parse_assets local
    cur_variation,      \* parse_assets local
    cur_moves_lines,    \* parse_assets local
    parsed,             \* parse_assets local `openings`, the dict being built
    \* ---- OpeningViewerApp
    disk,               \* what the assets directory holds at the moment
    openings,           \* self.openings
    current_opening,    \* self.current_opening
    current_variation_idx,
    current_move_index,
    playing_animation,
    \* ---- BoardCanvas
    images_on_board,    \* square -> piece symbol shown there (images or text items)
    arrow_item,         \* the last-move arrow: <<from, to>> or <<>>
    check_item,         \* the square of the red halo, or NoSquare
    current_board,      \* self.current_board
    timers,             \* pending Tk `after` callbacks, oldest first: one per animation
    \* ---- bookkeeping of animate_move calls against callback invocations
    callbacks_owed,     \* animate_move calls whose callback has not been invoked yet
    \* ---- history of the last request, kept for the properties only
    last_request,       \* the handler that served the last request of the user
    jump,               \* <<cursor, clamped target>> of the last play_move_sequence_to
    started             \* the plies animate_move was called for since then, in order

vars == <<files, file_no, line_no, cur_opening, cur_variation, cur_moves_lines,
          parsed, disk, openings, current_opening, current_variation_idx,
          current_move_index, playing_animation, images_on_board, arrow_item,
          check_item, current_board, timers, callbacks_owed, last_request,
          jump, started>>

parserVars == <<files, file_no, line_no, cur_opening, cur_variation,
                cur_moves_lines, parsed>>

appVars == <<disk, openings, current_opening, current_variation_idx,
             current_move_index, playing_animation, images_on_board, arrow_item,
             check_item, current_board, timers, callbacks_owed, last_request,
             jump, started>>

-----------------------------------------------------------------------------
(* Python values *)

\* None where a name (a string) is expected; no string of characters equals it
None == <<"None">>

\* None where a square or an index is expected
NoSquare == -1

ANIM_FRAMES == 25

Max(a, b) == IF a >= b THEN a ELSE b
Min(a, b) == IF a <= b THEN a ELSE b

-----------------------------------------------------------------------------
(* str methods and the regular expressions of flush_variation *)

Whitespace == {" ", "\t", "\n"}
Digits == {"0", "1", "2", "3", "4", "5", "6", "7", "8", "9"}

RECURSIVE lstrip(_, _)
lstrip(s, chars) ==
    IF s # <<>> /\ Head(s) \in chars THEN lstrip(Tail(s), chars) ELSE s

RECURSIVE rstrip(_, _)
rstrip(s, chars) ==
    IF s # <<>> /\ s[Len(s)] \in chars
    THEN rstrip(SubSeq(s, 1, Len(s) - 1), chars)
    ELSE s

strip(s) == rstrip(lstrip(s, Whitespace), Whitespace)

startswith(s, prefix) ==
    Len(s) >= Len(prefix) /\ SubSeq(s, 1, Len(prefix)) = prefix

CharSet(s) == {s[i] : i \in 1..Len(s)}

\* "\n".join(lines)
RECURSIVE join(_)
join(lines) ==
    IF lines = <<>> THEN <<>>
    ELSE IF Len(lines) = 1 THEN lines[1]
    ELSE lines[1] \o <<"\n">> \o join(Tail(lines))

\* s.split(): the maximal runs of non-whitespace characters
RECURSIVE split(_)
split(s) ==
    LET t == lstrip(s, Whitespace) IN
    IF t = <<>> THEN <<>>
    ELSE LET stops == {i \in 1..Len(t) : t[i] \in Whitespace}
             n == IF stops = {} THEN Len(t) + 1
                  ELSE CHOOSE i \in stops : \A j \in stops : i <= j
         IN <<SubSeq(t, 1, n - 1)>> \o split(SubSeq(t, n, Len(t)))

\* re.sub(r"\{\s*.*?\s*\}", "", ln): each brace that has a closing brace after
\* it is removed together with everything up to the first closing brace
RECURSIVE sub_comments(_)
sub_comments(s) ==
    IF s = <<>> THEN <<>>
    ELSE LET closes == {j \in 2..Len(s) : s[j] = "}"} IN
         IF Head(s) = "{" /\ closes # {}
         THEN LET j == CHOOSE c \in closes : \A d \in closes : c <= d
              IN sub_comments(SubSeq(s, j + 1, Len(s)))
         ELSE <<Head(s)>> \o sub_comments(Tail(s))

\* length of the longest run of digits s starts with
RECURSIVE DigitRun(_)
DigitRun(s) ==
    IF s # <<>> /\ Head(s) \in Digits THEN 1 + DigitRun(Tail(s)) ELSE 0

\* re.sub(r"\d+\.(\.\.)?", "", ln): digits, a dot and, when present, two more dots
RECURSIVE sub_move_numbers(_)
sub_move_numbers(s) ==
    IF s = <<>> THEN <<>>
    ELSE LET n == DigitRun(s) IN
         IF n > 0 /\ Len(s) > n /\ s[n + 1] = "."
         THEN LET m == IF Len(s) >= n + 3 /\ s[n + 2] = "." /\ s[n + 3] = "."
                       THEN n + 3 ELSE n + 1
              IN sub_move_numbers(SubSeq(s, m + 1, Len(s)))
         ELSE <<Head(s)>> \o sub_move_numbers(Tail(s))

\* re.sub(r"[!?+#]+$", "", tok)
Glyphs == {"!", "?", "+", "#"}
strip_annotations(tok) == rstrip(tok, Glyphs)

-----------------------------------------------------------------------------
(* The rules engine (python-chess), as far as the program uses it *)

FileChars == <<"a", "b", "c">>
RankChars == <<"1", "2", "3", "4", "5">>
NumFiles == Len(FileChars)
NumRanks == Len(RankChars)
SQUARES == 0..(NumFiles * NumRanks - 1)

square_file(sq) == sq % NumFiles
square_rank(sq) == sq \div NumFiles
square(f, r) == r * NumFiles + f
square_name(sq) == <<FileChars[square_file(sq) + 1], RankChars[square_rank(sq) + 1]>>

\* piece.symbol(); "." for no piece
NoPiece == "."
WhiteSymbols == {"P", "K"}
BlackSymbols == {"p", "k"}
SymbolsOf(white) == IF white THEN WhiteSymbols ELSE BlackSymbols
PawnOf(white) == IF white THEN "P" ELSE "p"
KingOf(white) == IF white THEN "K" ELSE "k"

\* the placement field of the starting FEN, eighth rank first
STARTING_RANKS ==
    << <<".", "k", ".">>,
       <<"p", ".", "p">>,
       <<".", ".", ".">>,
       <<"P", "P", "P">>,
       <<".", "K", ".">> >>

STARTING_FEN == [ranks |-> STARTING_RANKS, turn |-> "w", ep |-> <<"-">>, fullmove |-> 1]

\* chess.Board(fen): the move stack of the new board is empty
FromFen(fen) ==
    [pieces |-> [sq \in SQUARES |->
                    fen.ranks[NumRanks - square_rank(sq)][square_file(sq) + 1]],
     turn |-> (fen.turn = "w"),
     ep_square |-> IF fen.ep = <<"-">> THEN NoSquare
                   ELSE CHOOSE sq \in SQUARES : square_name(sq) = fen.ep,
     fullmove_number |-> fen.fullmove,
     stack |-> 0]

\* chess.Board()
NewBoard == FromFen(STARTING_FEN)

piece_at(board, sq) == board.pieces[sq]

Dir(white) == IF white THEN 1 ELSE 0 - 1
HomeRank(white) == IF white THEN 1 ELSE NumRanks - 2
LastRank(white) == IF white THEN NumRanks - 1 ELSE 0

PawnAttacks(sq, white) ==
    {t \in SQUARES : /\ square_rank(t) = square_rank(sq) + Dir(white)
                     /\ square_file(t) \in {square_file(sq) - 1, square_file(sq) + 1}}

KingSteps(sq) ==
    {t \in SQUARES : /\ t # sq
                     /\ square_rank(t) - square_rank(sq) \in {0 - 1, 0, 1}
                     /\ square_file(t) - square_file(sq) \in {0 - 1, 0, 1}}

is_attacked_by(pieces, white, sq) ==
    \E s \in SQUARES :
        \/ pieces[s] = PawnOf(white) /\ sq \in PawnAttacks(s, white)
        \/ pieces[s] = KingOf(white) /\ sq \in KingSteps(s)

\* board.king(color)
king(board, white) ==
    IF \E s \in SQUARES : board.pieces[s] = KingOf(white)
    THEN CHOOSE s \in SQUARES : board.pieces[s] = KingOf(white)
    ELSE NoSquare

\* board.is_check(): the side to move is in check
is_check(board) ==
    /\ king(board, board.turn) # NoSquare
    /\ is_attacked_by(board.pieces, ~board.turn, king(board, board.turn))

\* board.is_en_passant(move)
is_en_passant(board, move) ==
    /\ board.ep_square = move.to_square
    /\ board.pieces[move.from_square] \in {"P", "p"}
    /\ square_file(move.from_square) # square_file(move.to_square)
    /\ square_rank(move.from_square) # square_rank(move.to_square)
    /\ board.pieces[move.to_square] = NoPiece

\* board.is_capture(move)
is_capture(board, move) ==
    \/ board.pieces[move.to_square] \in SymbolsOf(~board.turn)
    \/ board.pieces[move.from_square] \in SymbolsOf(~board.turn)
    \/ is_en_passant(board, move)

\* board.push(move)
push(board, move) ==
    LET piece == board.pieces[move.from_square]
        ep == is_en_passant(board, move)
        victim == move.to_square - Dir(board.turn) * NumFiles
        double == /\ piece \in {"P", "p"}
                  /\ square_file(move.from_square) = square_file(move.to_square)
                  /\ square_rank(move.to_square) - square_rank(move.from_square)
                        \in {2, 0 - 2}
    IN [pieces |-> [sq \in SQUARES |->
                       IF sq = move.to_square THEN piece
                       ELSE IF sq = move.from_square THEN NoPiece
                       ELSE IF ep /\ sq = victim THEN NoPiece
                       ELSE board.pieces[sq]],
        turn |-> ~board.turn,
        ep_square |-> IF double
                      THEN move.from_square + Dir(board.turn) * NumFiles
                      ELSE NoSquare,
        fullmove_number |-> IF board.turn THEN board.fullmove_number
                            ELSE board.fullmove_number + 1,
        stack |-> board.stack + 1]

PseudoLegalMoves(board) ==
    LET white == board.turn
        fwd(sq) == sq + Dir(white) * NumFiles
        pawns == {s \in SQUARES : board.pieces[s] = PawnOf(white)}
        kings == {s \in SQUARES : board.pieces[s] = KingOf(white)}
        single == {[from_square |-> s, to_square |-> fwd(s)] :
                     s \in {p \in pawns : /\ fwd(p) \in SQUARES
                                          /\ square_rank(fwd(p)) # LastRank(white)
                                          /\ board.pieces[fwd(p)] = NoPiece}}
        double == {[from_square |-> s, to_square |-> fwd(fwd(s))] :
                     s \in {p \in pawns : /\ square_rank(p) = HomeRank(white)
                                          /\ fwd(fwd(p)) \in SQUARES
                                          /\ square_rank(fwd(fwd(p))) # LastRank(white)
                                          /\ board.pieces[fwd(p)] = NoPiece
                                          /\ board.pieces[fwd(fwd(p))] = NoPiece}}
        takes == UNION {{[from_square |-> s, to_square |-> t] :
                            t \in {u \in PawnAttacks(s, white) :
                                     /\ square_rank(u) # LastRank(white)
                                     /\ \/ board.pieces[u] \in SymbolsOf(~white)
                                        \/ u = board.ep_square /\ board.pieces[u] = NoPiece}} :
                        s \in pawns}
        steps == UNION {{[from_square |-> s, to_square |-> t] :
                            t \in {u \in KingSteps(s) :
                                     board.pieces[u] \notin SymbolsOf(white)}} :
                        s \in kings}
    IN single \cup double \cup takes \cup steps

\* board.legal_moves: the mover's king is not attacked afterwards
LegalMoves(board) ==
    {m \in PseudoLegalMoves(board) :
        LET after == push(board, m)
            k == king(after, board.turn)
        IN k = NoSquare \/ ~is_attacked_by(after.pieces, ~board.turn, k)}

\* the spellings of a move that parse_san accepts: the piece letter (none for a
\* pawn), the file and the rank of the origin (each optional, but a pawn that
\* changes file names its file), an optional x or -, the destination
Spellings(board, m) ==
    LET isKing == board.pieces[m.from_square] \in {"K", "k"}
        letter == IF isKing THEN <<"K">> ELSE <<>>
        ff == <<FileChars[square_file(m.from_square) + 1]>>
        fr == <<RankChars[square_rank(m.from_square) + 1]>>
        fileOpts == IF ~isKing /\ square_file(m.from_square) # square_file(m.to_square)
                    THEN {ff} ELSE {<<>>, ff}
    IN {letter \o f \o r \o x \o square_name(m.to_square) :
           f \in fileOpts, r \in {<<>>, fr}, x \in {<<>>, <<"x">>, <<"-">>}}

\* the legal moves a token names
Candidates(board, tok) == {m \in LegalMoves(board) : tok \in Spellings(board, m)}

\* board.parse_san(tok) succeeds: exactly one legal move matches
san_ok(board, tok) == Cardinality(Candidates(board, tok)) = 1

\* board.parse_san(tok), when it succeeds
parse_san(board, tok) == CHOOSE m \in Candidates(board, tok) : TRUE

\* move.uci()
uci(move) == square_name(move.from_square) \o square_name(move.to_square)

\* chess.Move.from_uci(text)
from_uci(text) ==
    [from_square |-> CHOOSE sq \in SQUARES : square_name(sq) = SubSeq(text, 1, 2),
     to_square |-> CHOOSE sq \in SQUARES : square_name(sq) = SubSeq(text, 3, 4)]

\* some legal en passant capture exists
has_legal_en_passant(board) ==
    \E m \in LegalMoves(board) : is_en_passant(board, m)

\* board.fen(): the en passant square is written only when a legal en passant
\* capture exists; the move stack is not part of a FEN
Fen(board) ==
    [ranks |-> [i \in 1..NumRanks |->
                  [j \in 1..NumFiles |-> board.pieces[square(j - 1, NumRanks - i)]]],
     turn |-> IF board.turn THEN "w" ELSE "b",
     ep |-> IF board.ep_square # NoSquare /\ has_legal_en_passant(board)
            THEN square_name(board.ep_square) ELSE <<"-">>,
     fullmove |-> board.fullmove_number]

-----------------------------------------------------------------------------
(* parse_assets *)

EmptyDict == [n \in {} |-> <<>>]

\* openings.setdefault(key, []).append(obj)
setdefault_append(dict, key, obj) ==
    IF key \in DOMAIN dict
    THEN [dict EXCEPT ![key] = Append(@, obj)]
    ELSE [n \in (DOMAIN dict) \cup {key} |-> IF n = key THEN <<obj>> ELSE dict[n]]

\* the tokens of one line of move text (lines 93-99)
line_tokens(ln) == split(strip(sub_move_numbers(sub_comments(ln))))

RECURSIVE extend_tokens(_)
extend_tokens(lines) ==
    IF lines = <<>> THEN <<>>
    ELSE line_tokens(Head(lines)) \o extend_tokens(Tail(lines))

\* the filter of line 101
keep_token(t) == strip(t) # <<>> /\ strip(t) # <<".", ".", ".">>

filter_tokens(tokens) == SelectSeq(tokens, keep_token)

\* lines 90-101
extract_tokens(lines) == filter_tokens(extend_tokens(lines))

\* the locals of the validation loop before its first token (lines 103-106)
loop_start ==
    [board |-> NewBoard, ucis |-> <<>>, fens |-> <<Fen(NewBoard)>>, valid_sans |-> <<>>]

\* accept_token with the snapshot taken before the move is pushed
accept_token_stale_fen(acc, tok, move) ==
    LET ucis == Append(acc.ucis, uci(move))
        fens == Append(acc.fens, Fen(acc.board))
        board == push(acc.board, move)
        valid_sans == Append(acc.valid_sans, tok)
    IN [board |-> board, ucis |-> ucis, fens |-> fens, valid_sans |-> valid_sans]

\* accept_token with the cleaned token stored for display
accept_token_clean_display(acc, tok, move) ==
    LET ucis == Append(acc.ucis, uci(move))
        board == push(acc.board, move)
        fens == Append(acc.fens, Fen(board))
        valid_sans == Append(acc.valid_sans, strip_annotations(tok))
    IN [board |-> board, ucis |-> ucis, fens |-> fens, valid_sans |-> valid_sans]

\* the body of the try block (lines 111-116), parse_san having returned move
accept_token(acc, tok, move) ==
    LET ucis == Append(acc.ucis, uci(move))
        board == push(acc.board, move)
        fens == Append(acc.fens, Fen(board))
        valid_sans == Append(acc.valid_sans, tok)
    IN [board |-> board, ucis |-> ucis, fens |-> fens, valid_sans |-> valid_sans]

RECURSIVE validate_from(_, _, _)

\* on_illegal_token with the display token stored before it was resolved
on_illegal_token_keep(tokens, k, acc) ==
    [acc EXCEPT !.valid_sans = Append(@, tokens[k])]

\* on_illegal_token that goes on with the next token
on_illegal_token_skip(tokens, k, acc) == validate_from(tokens, k + 1, acc)

\* the except block (lines 117-120): report, and leave the loop
on_illegal_token(tokens, k, acc) == acc

\* the loop of lines 107-120, from the k-th token on
validate_from(tokens, k, acc) ==
    IF k > Len(tokens) THEN acc
    ELSE LET tok == tokens[k]
             tok_clean == strip_annotations(tok)
         IN IF san_ok(acc.board, tok_clean)
            THEN validate_from(tokens, k + 1,
                               accept_token(acc, tok, parse_san(acc.board, tok_clean)))
            ELSE on_illegal_token(tokens, k, acc)

\* lines 121-126
variation_obj(name, acc) ==
    [name |-> name, moves_san |-> acc.valid_sans, moves_uci |-> acc.ucis,
     states_fen |-> acc.fens]

\* flush_variation in which a variation cut at an illegal token replaces what
\* its opening held
flush_variation_drop(p) ==
    IF p.cur_opening = None \/ p.cur_variation = None THEN p
    ELSE IF strip(join(p.cur_moves_lines)) = <<>> THEN p
    ELSE LET tokens == extract_tokens(p.cur_moves_lines)
             acc == validate_from(tokens, 1, loop_start)
             obj == variation_obj(p.cur_variation, acc)
             kept == IF Len(acc.valid_sans) < Len(tokens)
                     THEN [n \in (DOMAIN p.openings) \ {p.cur_opening} |-> p.openings[n]]
                     ELSE p.openings
         IN [p EXCEPT !.openings = setdefault_append(kept, p.cur_opening, obj),
                      !.cur_moves_lines = <<>>]

\* flush_variation, on the locals p of parse_assets (lines 82-128)
flush_variation(p) ==
    IF p.cur_opening = None \/ p.cur_variation = None THEN p
    ELSE IF strip(join(p.cur_moves_lines)) = <<>> THEN p
    ELSE LET acc == validate_from(extract_tokens(p.cur_moves_lines), 1, loop_start)
         IN [p EXCEPT !.openings = setdefault_append(p.openings, p.cur_opening,
                                        variation_obj(p.cur_variation, acc)),
                      !.cur_moves_lines = <<>>]

\* the name a header line gives (lines 137 and 141)
header_name(line_stripped) == rstrip(strip(lstrip(line_stripped, {"*", " "})), {":"})

is_opening_header(line) == startswith(strip(line), <<"*", "*">>)
is_variation_header(line) ==
    ~is_opening_header(line) /\ startswith(strip(line), <<"*">>)
is_separator(line) ==
    /\ ~startswith(strip(line), <<"*">>)
    /\ startswith(strip(line), <<"-">>)
    /\ CharSet(strip(line)) \subseteq {"-", " "}
is_other(line) ==
    ~is_opening_header(line) /\ ~is_variation_header(line) /\ ~is_separator(line)

\* lines 132-137
opening_branch(p, line) ==
    [flush_variation(p) EXCEPT !.cur_variation = None,
                               !.cur_moves_lines = <<>>,
                               !.cur_opening = header_name(strip(line))]

\* lines 138-142
variation_branch(p, line) ==
    [flush_variation(p) EXCEPT !.cur_variation = header_name(strip(line)),
                               !.cur_moves_lines = <<>>]

\* a separator that flushes and leaves the variation open
separator_branch_keep_open(p, line) ==
    [flush_variation(p) EXCEPT !.cur_moves_lines = <<>>]

\* lines 143-147
separator_branch(p, line) ==
    [flush_variation(p) EXCEPT !.cur_variation = None, !.cur_moves_lines = <<>>]

\* lines 148-151
other_branch(p, line) ==
    IF p.cur_variation # None /\ strip(line) # <<>>
    THEN [p EXCEPT !.cur_moves_lines = Append(@, rstrip(line, Whitespace))]
    ELSE p

\* the body of the loop over the lines (lines 130-151)
scan_line(p, line) ==
    IF is_opening_header(line) THEN opening_branch(p, line)
    ELSE IF is_variation_header(line) THEN variation_branch(p, line)
    ELSE IF is_separator(line) THEN separator_branch(p, line)
    ELSE other_branch(p, line)

RECURSIVE scan_lines(_, _)
scan_lines(p, lines) ==
    IF lines = <<>> THEN p ELSE scan_lines(scan_line(p, Head(lines)), Tail(lines))

\* the locals at the top of one file (lines 79-81); `openings` is carried over
file_start(dict) ==
    [cur_opening |-> None, cur_variation |-> None, cur_moves_lines |-> <<>>,
     openings |-> dict]

\* one round of the loop over the files (lines 75-153)
scan_file(dict, lines) == flush_variation(scan_lines(file_start(dict), lines)).openings

RECURSIVE scan_files(_, _)
scan_files(dict, fs) ==
    IF fs = <<>> THEN dict ELSE scan_files(scan_file(dict, Head(fs)), Tail(fs))

\* parse_assets(dir_path), the directory holding the files fs
parse_assets(fs) == scan_files(EmptyDict, fs)

-----------------------------------------------------------------------------
(* Input texts *)

\* header lines, a separator and lines of move text, character by character
OpeningA == <<"*", "*", " ", "A", ":">>
OpeningB == <<" ", "*", "*", "B">>
VariationV == <<"*", " ", "V", ":">>
VariationW == <<"*", "W">>
SeparatorLine == <<"-", " ", "-", "-">>
\* two quiet plies
MovesQuiet == <<"1", ".", " ", "b", "3", " ", "a", "3">>
\* a capture with check and the recapture; legal only after MovesQuiet
MovesCapture == <<"2", ".", " ", "b", "x", "c", "4", "+", " ", "K", "x", "c", "4">>
\* a token no move matches, then a token that is legal in the starting position
MovesIllegal == <<"Q", "h", "9", " ", "b", "4">>
\* a double step and the en passant capture, with glyphs, a comment and placeholders
MovesEnPassant == <<"1", ".", ".", ".", " ", "b", "4", "!", "?", " ", "{", "e", " ", "p", "}", " ", "a", "x", "b", "3", " ", ".", ".", ".">>

HeaderLines == {OpeningA, OpeningB, VariationV, VariationW}
MoveLines == {MovesQuiet, MovesCapture, MovesIllegal, MovesEnPassant}
LineSamples == HeaderLines \cup {SeparatorLine} \cup MoveLines

\* longest text of freely chosen lines
MaxLines == 2

SeqsUpTo(S, n) == UNION {[1..k -> S] : k \in 0..n}

\* openings that the free lines continue: a variation with and without moves
Preambles ==
    { <<>>,
      <<OpeningA, VariationV>>,
      <<OpeningA, VariationV, MovesQuiet>>,
      <<OpeningA, VariationV, MovesQuiet, SeparatorLine>>,
      <<OpeningA, VariationV, MovesQuiet, OpeningB>>,
      <<OpeningA, VariationV, MovesIllegal, VariationW>> }

SampleTexts == {pre \o t : pre \in Preambles, t \in SeqsUpTo(LineSamples, MaxLines)}

\* an assets directory: no file, one file, or two files
SampleDirs ==
    {<<>>} \cup {<<t>> : t \in SampleTexts}
           \cup {<<t, u>> : t \in {<<OpeningA, VariationV, MovesQuiet>>},
                            u \in SeqsUpTo(LineSamples, MaxLines)}

-----------------------------------------------------------------------------
(* The parser, line by line *)

\* the locals of parse_assets, as one record
locals ==
    [cur_opening |-> cur_opening, cur_variation |-> cur_variation,
     cur_moves_lines |-> cur_moves_lines, openings |-> parsed]

SetLocals(p) ==
    /\ cur_opening' = p.cur_opening
    /\ cur_variation' = p.cur_variation
    /\ cur_moves_lines' = p.cur_moves_lines
    /\ parsed' = p.openings

Scanning == file_no <= Len(files) /\ line_no <= Len(files[file_no])
Returned == file_no > Len(files)

\* a line that begins an opening
OpeningHeader ==
    /\ Scanning
    /\ is_opening_header(files[file_no][line_no])
    /\ SetLocals(opening_branch(locals, files[file_no][line_no]))
    /\ line_no' = line_no + 1
    /\ UNCHANGED <<files, file_no>>
    /\ UNCHANGED appVars

\* a line that begins a variation
VariationHeader ==
    /\ Scanning
    /\ is_variation_header(files[file_no][line_no])
    /\ SetLocals(variation_branch(locals, files[file_no][line_no]))
    /\ line_no' = line_no + 1
    /\ UNCHANGED <<files, file_no>>
    /\ UNCHANGED appVars

\* a separator line
Separator ==
    /\ Scanning
    /\ is_separator(files[file_no][line_no])
    /\ SetLocals(separator_branch(locals, files[file_no][line_no]))
    /\ line_no' = line_no + 1
    /\ UNCHANGED <<files, file_no>>
    /\ UNCHANGED appVars

\* any other line: move text, or a line that is ignored
OtherLine ==
    /\ Scanning
    /\ is_other(files[file_no][line_no])
    /\ SetLocals(other_branch(locals, files[file_no][line_no]))
    /\ line_no' = line_no + 1
    /\ UNCHANGED <<files, file_no>>
    /\ UNCHANGED appVars

\* the end of a file: the last flush (line 153), then the next file
EndOfFile ==
    /\ file_no <= Len(files)
    /\ line_no > Len(files[file_no])
    /\ SetLocals(file_start(flush_variation(locals).openings))
    /\ file_no' = file_no + 1
    /\ line_no' = 1
    /\ UNCHANGED files
    /\ UNCHANGED appVars

-----------------------------------------------------------------------------
(* BoardCanvas and OpeningViewerApp, as operators on the mutable state w *)

\* None where an index is expected
NoIndex == NoSquare

world ==
    [current_opening |-> current_opening,
     current_variation_idx |-> current_variation_idx,
     current_move_index |-> current_move_index,
     images_on_board |-> images_on_board,
     arrow_item |-> arrow_item,
     check_item |-> check_item,
     current_board |-> current_board,
     timers |-> timers,
     callbacks_owed |-> callbacks_owed,
     jump |-> jump,
     started |-> started]

SetWorld(result) ==
    \E w \in {result} :
        /\ current_opening' = w.current_opening
        /\ current_variation_idx' = w.current_variation_idx
        /\ current_move_index' = w.current_move_index
        /\ images_on_board' = w.images_on_board
        /\ arrow_item' = w.arrow_item
        /\ check_item' = w.check_item
        /\ current_board' = w.current_board
        /\ timers' = w.timers
        /\ callbacks_owed' = w.callbacks_owed
        /\ jump' = w.jump
        /\ started' = w.started

\* BoardCanvas.reset_pieces_from_board
reset_pieces_from_board(w, board) ==
    [w EXCEPT !.images_on_board = board.pieces,
              !.current_board = board,
              !.arrow_item = <<>>,
              !.check_item = NoSquare]

\* BoardCanvas._draw_last_move_arrow
draw_last_move_arrow(w, from_sq, to_sq) ==
    [w EXCEPT !.arrow_item = <<from_sq, to_sq>>]

\* a highlight_check that marks the king of the side that has just moved
highlight_check_mover(w, board) ==
    [w EXCEPT !.check_item =
        IF is_check(board) THEN king(board, ~board.turn) ELSE NoSquare]

\* BoardCanvas.highlight_check
highlight_check(w, board) ==
    [w EXCEPT !.check_item =
        IF is_check(board) THEN king(board, board.turn) ELSE NoSquare]

\* chess.Board(var["states_fen"][0]) with the first n moves of var pushed
RECURSIVE replay(_, _)
replay(var, n) ==
    IF n = 0 THEN FromFen(var.states_fen[1])
    ELSE push(replay(var, n - 1), from_uci(var.moves_uci[n]))

\* the deletion of the item on a square (lines 342-347 and 373-378)
delete_item(w, sq) == [w EXCEPT !.images_on_board[sq] = NoPiece]

RECURSIVE step_to(_, _, _, _)
RECURSIVE animate_move(_, _, _, _)

\* after_anim, the callback step_to hands to animate_move (lines 554-564);
\* cb holds what the closure captured
after_anim(w, cb) ==
    LET move == from_uci(cb.uci)
        board == push(cb.board_before, move)
        w1 == reset_pieces_from_board(w, board)
        w2 == draw_last_move_arrow(w1, move.from_square, move.to_square)
        w3 == highlight_check(w2, board)
        w4 == [w3 EXCEPT !.current_move_index = cb.next_index]
    IN step_to(w4, cb.var, cb.next_index, cb.idx_to)

\* callback(): one invocation of the callback of an animate_move call
invoke_callback(w, cb) ==
    after_anim([w EXCEPT !.callbacks_owed = @ - 1], cb)

\* frame(i) of the animation s (lines 336-379); s.i is i
frame(w, s) ==
    LET move == from_uci(s.uci)
        moving_piece == piece_at(s.board_before, move.from_square)
    IN IF s.i >= ANIM_FRAMES
       THEN LET w1 == IF s.captured_item_sq # NoSquare
                      THEN delete_item(w, s.captured_item_sq) ELSE w
                w2 == [w1 EXCEPT !.images_on_board[move.to_square] = moving_piece]
                w3 == draw_last_move_arrow(w2, move.from_square, move.to_square)
            IN invoke_callback(w3, s.cb)
       ELSE LET w1 == IF s.captured_item_sq # NoSquare /\ s.i = ANIM_FRAMES \div 2
                      THEN delete_item(w, s.captured_item_sq) ELSE w
            IN [w1 EXCEPT !.timers = Append(@, [s EXCEPT !.i = s.i + 1])]

\* BoardCanvas.animate_move (lines 262-381)
animate_move(w, board_before, uci_move, cb) ==
    LET move == from_uci(uci_move)
        from_sq == move.from_square
        to_sq == move.to_square
        captured == IF is_capture(board_before, move)
                    THEN piece_at(board_before, to_sq) ELSE NoPiece
        moving_piece == piece_at(board_before, from_sq)
        w0 == [w EXCEPT !.callbacks_owed = @ + 1,
                        !.started = Append(@, cb.next_index)]
    IN IF moving_piece = NoPiece \/ w.images_on_board[from_sq] = NoPiece
       THEN \* nothing to animate, or no item to move: set the final position
            invoke_callback(reset_pieces_from_board(w0, push(board_before, move)), cb)
       ELSE LET w1 == delete_item(w0, from_sq) IN
            IF captured # NoPiece /\ w1.images_on_board[to_sq] = NoPiece
            THEN \* line 325: chess.Move has no is_en_passant; the AttributeError
                 \* ends the handler, no frame is scheduled
                 w1
            ELSE frame(w1, [board_before |-> board_before,
                            uci |-> uci_move,
                            captured_item_sq |-> IF captured # NoPiece
                                                 THEN to_sq ELSE NoSquare,
                            i |-> 0,
                            cb |-> cb])

\* a step_to whose backward branch leaves the arrow cleared
step_to_no_arrow(w, var, idx_from, idx_to) ==
    IF idx_from = idx_to
    THEN [w EXCEPT !.current_move_index = idx_to]
    ELSE IF idx_to > idx_from
    THEN LET next_index == idx_from + 1
             uci_move == var.moves_uci[next_index]
             board_before == replay(var, next_index - 1)
         IN animate_move(w, board_before, uci_move,
                         [var |-> var, next_index |-> next_index, idx_to |-> idx_to,
                          board_before |-> board_before, uci |-> uci_move])
    ELSE LET new_board == replay(var, idx_to)
             w1 == reset_pieces_from_board(w, new_board)
             w3 == highlight_check(w1, new_board)
         IN [w3 EXCEPT !.current_move_index = idx_to]

\* step_to(idx_from, idx_to) inside play_move_sequence_to (lines 538-580)
step_to(w, var, idx_from, idx_to) ==
    IF idx_from = idx_to
    THEN [w EXCEPT !.current_move_index = idx_to]
    ELSE IF idx_to > idx_from
    THEN LET next_index == idx_from + 1
             uci_move == var.moves_uci[next_index]
             board_before == replay(var, next_index - 1)
         IN animate_move(w, board_before, uci_move,
                         [var |-> var, next_index |-> next_index, idx_to |-> idx_to,
                          board_before |-> board_before, uci |-> uci_move])
    ELSE LET new_board == replay(var, idx_to)
             w1 == reset_pieces_from_board(w, new_board)
             mv == from_uci(var.moves_uci[idx_to])
             w2 == IF idx_to > 0
                   THEN draw_last_move_arrow(w1, mv.from_square, mv.to_square)
                   ELSE w1
             w3 == highlight_check(w2, new_board)
         IN [w3 EXCEPT !.current_move_index = idx_to]

\* a play_move_sequence_to that clamps the target to 1..N
play_move_sequence_to_floor_one(w, store, target_move_count) ==
    IF w.current_opening = None \/ w.current_variation_idx = NoIndex THEN w
    ELSE LET var == store[w.current_opening][w.current_variation_idx + 1]
             max_moves == Len(var.moves_uci)
             target == Max(1, Min(target_move_count, max_moves))
         IN step_to([w EXCEPT !.jump = <<w.current_move_index, target>>,
                              !.started = <<>>],
                    var, w.current_move_index, target)

\* OpeningViewerApp.play_move_sequence_to (lines 527-583)
play_move_sequence_to(w, store, target_move_count) ==
    IF w.current_opening = None \/ w.current_variation_idx = NoIndex THEN w
    ELSE LET var == store[w.current_opening][w.current_variation_idx + 1]
             max_moves == Len(var.moves_uci)
             target == Max(0, Min(target_move_count, max_moves))
         IN step_to([w EXCEPT !.jump = <<w.current_move_index, target>>,
                              !.started = <<>>],
                    var, w.current_move_index, target)

\* OpeningViewerApp.on_prev
on_prev(w, store) ==
    IF w.current_opening = None \/ w.current_variation_idx = NoIndex THEN w
    ELSE play_move_sequence_to(w, store, w.current_move_index - 1)

\* OpeningViewerApp.on_next
on_next(w, store) ==
    IF w.current_opening = None \/ w.current_variation_idx = NoIndex THEN w
    ELSE play_move_sequence_to(w, store, w.current_move_index + 1)

\* OpeningViewerApp.open_variation
open_variation(w, opening, vidx) ==
    reset_pieces_from_board(
        [w EXCEPT !.current_opening = opening,
                  !.current_variation_idx = vidx,
                  !.current_move_index = 0,
                  !.jump = <<0, 0>>,
                  !.started = <<>>],
        NewBoard)

\* an open_and_jump that opens the variation at its start before it jumps
open_and_jump_reset(w, store, opening, vidx, move_count) ==
    IF opening \notin DOMAIN store THEN w
    ELSE play_move_sequence_to(open_variation(w, opening, vidx), store, move_count)

\* OpeningViewerApp.open_and_jump
open_and_jump(w, store, opening, vidx, move_count) ==
    IF opening \notin DOMAIN store THEN w
    ELSE play_move_sequence_to(
             [w EXCEPT !.current_opening = opening, !.current_variation_idx = vidx],
             store, move_count)

\* the reset at the end of OpeningViewerApp.populate_tree (lines 479-483)
populate_tree(w) ==
    reset_pieces_from_board(
        [w EXCEPT !.current_opening = None,
                  !.current_variation_idx = NoIndex,
                  !.current_move_index = 0,
                  !.jump = <<0, 0>>,
                  !.started = <<>>],
        NewBoard)

-----------------------------------------------------------------------------
(* The application: the handlers of the user's requests and the timer *)

\* two quiet plies that vacate c4
MovesAside == <<"1", ".", " ", "b", "3", " ", "c", "3">>

\* a capture that gives check
MovesCheck == <<"2", ".", " ", "b", "x", "c", "4", "+">>

\* the assets directories the application is pointed at: one with two openings,
\* and one without files
LibraryMain ==
    << <<OpeningA, VariationV, MovesQuiet, MovesCapture, SeparatorLine,
         VariationW, MovesEnPassant, SeparatorLine,
         OpeningB, VariationV, MovesAside>> >>
LibraryOther == <<>>
LibraryDirs == {LibraryMain, LibraryOther}

\* parse_assets on each of them
Parsed == [d \in LibraryDirs |-> parse_assets(d)]

\* animations in flight at once that a run goes on from
MaxSessions == 1
\* animate_move calls that neither scheduled a frame nor called back that a run
\* goes on from
MaxLost == 0

\* a run is followed as long as it stays within the bounds
WithinBounds ==
    /\ Len(timers) <= MaxSessions
    /\ callbacks_owed - Len(timers) <= MaxLost

\* the Next button
OnNext ==
    /\ WithinBounds
    /\ SetWorld(on_next(world, openings))
    /\ last_request' = "next"
    /\ UNCHANGED <<disk, openings, playing_animation>>
    /\ UNCHANGED parserVars

\* the Prev button
OnPrev ==
    /\ WithinBounds
    /\ SetWorld(on_prev(world, openings))
    /\ last_request' = "prev"
    /\ UNCHANGED <<disk, openings, playing_animation>>
    /\ UNCHANGED parserVars

\* on_tree_select on a variation of the tree
SelectVariation ==
    /\ WithinBounds
    /\ \E opening \in DOMAIN openings :
         \E vidx \in 0..(Len(openings[opening]) - 1) :
            SetWorld(open_variation(world, opening, vidx))
    /\ last_request' = "select"
    /\ UNCHANGED <<disk, openings, playing_animation>>
    /\ UNCHANGED parserVars

\* on_tree_select on a move of the tree
SelectMove ==
    /\ WithinBounds
    /\ \E opening \in DOMAIN openings :
         \E vidx \in 0..(Len(openings[opening]) - 1) :
            \E midx \in 0..(Len(openings[opening][vidx + 1].moves_san) - 1) :
               SetWorld(open_and_jump(world, openings, opening, vidx, midx + 1))
    /\ last_request' = "move"
    /\ UNCHANGED <<disk, openings, playing_animation>>
    /\ UNCHANGED parserVars

\* the Refresh button: reload_assets
ReloadAssets ==
    /\ WithinBounds
    /\ openings' = Parsed[disk]
    /\ SetWorld(populate_tree(world))
    /\ last_request' = "reload"
    /\ UNCHANGED <<disk, playing_animation>>
    /\ UNCHANGED parserVars

\* choose_assets_folder, another folder chosen
ChooseAssetsFolder ==
    /\ WithinBounds
    /\ \E d \in LibraryDirs \ {disk} :
         /\ disk' = d
         /\ openings' = Parsed[d]
    /\ SetWorld(populate_tree(world))
    /\ last_request' = "reload"
    /\ UNCHANGED playing_animation
    /\ UNCHANGED parserVars

\* the oldest pending `after` callback runs: the next frame of that animation
Tick ==
    /\ WithinBounds
    /\ timers # <<>>
    /\ SetWorld(frame([world EXCEPT !.timers = Tail(@)], Head(timers)))
    /\ UNCHANGED last_request
    /\ UNCHANGED <<disk, openings, playing_animation>>
    /\ UNCHANGED parserVars

-----------------------------------------------------------------------------
(* Specifications *)

ParserIdle ==
    /\ files = <<>>
    /\ file_no = 1
    /\ line_no = 1
    /\ cur_opening = None
    /\ cur_variation = None
    /\ cur_moves_lines = <<>>
    /\ parsed = EmptyDict

\* OpeningViewerApp.__init__ (lines 414-455) over a store
AppStarted(d, store) ==
    /\ disk = d
    /\ openings = store
    /\ current_opening = None
    /\ current_variation_idx = NoIndex
    /\ current_move_index = 0
    /\ playing_animation = FALSE
    /\ images_on_board = NewBoard.pieces
    /\ arrow_item = <<>>
    /\ check_item = NoSquare
    /\ current_board = NewBoard
    /\ timers = <<>>
    /\ callbacks_owed = 0
    /\ last_request = "start"
    /\ jump = <<0, 0>>
    /\ started = <<>>

\* the application, started on one of the directories
Init ==
    /\ ParserIdle
    /\ \E d \in LibraryDirs : AppStarted(d, Parsed[d])

Next ==
    \/ OnNext
    \/ OnPrev
    \/ SelectVariation
    \/ SelectMove
    \/ ReloadAssets
    \/ ChooseAssetsFolder
    \/ Tick

Spec == Init /\ [][Next]_vars

\* parse_assets entered on a directory (lines 70-75)
InitParse ==
    /\ files \in SampleDirs
    /\ file_no = 1
    /\ line_no = 1
    /\ cur_opening = None
    /\ cur_variation = None
    /\ cur_moves_lines = <<>>
    /\ parsed = EmptyDict
    /\ AppStarted(<<>>, EmptyDict)

NextParse ==
    \/ OpeningHeader
    \/ VariationHeader
    \/ Separator
    \/ OtherLine
    \/ EndOfFile

SpecParse == InitParse /\ [][NextParse]_vars

\* a user who waits for the board to come to rest before the next request
NextWhenSettled == timers = <<>> /\ OnNext
PrevWhenSettled == timers = <<>> /\ OnPrev
SelectVariationWhenSettled == timers = <<>> /\ SelectVariation
SelectMoveWhenSettled == timers = <<>> /\ SelectMove
ReloadWhenSettled == timers = <<>> /\ ReloadAssets

NextQuiet ==
    \/ NextWhenSettled
    \/ PrevWhenSettled
    \/ SelectVariationWhenSettled
    \/ SelectMoveWhenSettled
    \/ ReloadWhenSettled
    \/ Tick

\* Tk runs a pending `after` callback once its delay has passed
SpecQuiet == Init /\ [][NextQuiet]_vars /\ WF_vars(Tick)

-----------------------------------------------------------------------------
(* Playback: animation sessions and the requests that arrive during one *)

\* C1: in every reachable state at most one animation is in flight: no
\* animate_move call starts before the callback of the previous one has fired
C1_AtMostOneSession == Len(timers) <= 1

\* C2: a Next or Prev request that arrives while a ply is animating is dropped:
\* it changes neither the cursor nor the canvas and starts no animation
C2_RequestDroppedWhileAnimating ==
    [][(timers # <<>> /\ (OnNext \/ OnPrev))
          => UNCHANGED <<current_move_index, images_on_board, arrow_item,
                         check_item, current_board, timers>>]_vars

\* C3: while the animation of the ply from k to k+1 is in flight (any of its
\* frames pending) the cursor equals k; it becomes k+1 only in the callback
C3_CursorHeldDuringFrames ==
    \A n \in 1..Len(timers) : current_move_index = timers[n].cb.next_index - 1

\* C4: with no active variation (at the start, and after a reload until the next
\* selection) the cursor is 0 and the canvas shows the initial position, also
\* when the reload came while a ply was animating
C4_IdleAfterReload ==
    current_opening = None =>
        /\ current_move_index = 0
        /\ images_on_board = NewBoard.pieces

\* C5: every animate_move call invokes its callback exactly once: the calls
\* whose callback is still to come are exactly the animations with a frame pending
C5_CallbackExactlyOnce == callbacks_owed = Len(timers)

-----------------------------------------------------------------------------
(* The parser's output *)

\* the variation objects of a dict of openings
AllVariations(dict) ==
    UNION {{dict[o][n] : n \in 1..Len(dict[o])} : o \in DOMAIN dict}

\* C6: every variation of the parser's output has one position more than it has
\* canonical moves and than it has display moves, truncated or not
C6_ParallelLengths ==
    \A v \in AllVariations(parsed) :
        /\ Len(v.states_fen) = Len(v.moves_uci) + 1
        /\ Len(v.states_fen) = Len(v.moves_san) + 1

\* a variation cut at an illegal token after two legal ones
C6_Witness ==
    /\ Returned
    /\ files = << <<OpeningA, VariationV, MovesQuiet, MovesIllegal>> >>
    /\ \E v \in AllVariations(parsed) : Len(v.states_fen) = 3

\* the position after the first j tokens of t, each resolved in turn
RECURSIVE PositionAfter(_, _)
PositionAfter(t, j) ==
    IF j = 0 THEN NewBoard
    ELSE LET before == PositionAfter(t, j - 1)
         IN push(before, parse_san(before, strip_annotations(t[j])))

\* token j of t resolves against the position its predecessors reach
ResolvesAt(t, j) == san_ok(PositionAfter(t, j - 1), strip_annotations(t[j]))

\* the length of the longest prefix of t in which every token resolves
LongestResolvable(t) ==
    CHOOSE j \in 0..Len(t) :
        /\ \A i \in 1..j : ResolvesAt(t, i)
        /\ j = Len(t) \/ ~ResolvesAt(t, j + 1)

\* C7: a flush that adds a variation adds the longest prefix of its tokens in
\* which every token resolves against the position the preceding tokens reach,
\* and nothing from the first unresolvable token on
C7_LongestLegalPrefix ==
    [][parsed' # parsed =>
          LET t == extract_tokens(cur_moves_lines)
              j == LongestResolvable(t)
              added == parsed'[cur_opening][Len(parsed'[cur_opening])]
          IN /\ added.moves_san = SubSeq(t, 1, j)
             /\ Len(added.moves_uci) = j
             /\ Len(added.states_fen) = j + 1]_vars

\* a variation cut at Qh9 although the token after it is legal there
C7_Witness ==
    /\ Returned
    /\ files = << <<OpeningA, VariationV, MovesQuiet, MovesIllegal>> >>
    /\ parsed[header_name(OpeningA)][1].moves_san = <<<<"b", "3">>, <<"a", "3">>>>
    /\ san_ok(replay(parsed[header_name(OpeningA)][1], 2), <<"b", "4">>)

\* C8: every variation of the parser's output has at least one resolved move
C8_NoEmptyVariation ==
    \A v \in AllVariations(parsed) : Len(v.moves_san) >= 1

\* the lines of a file that are accumulated as move text: <<file, line>>
MoveTextPositions ==
    {pos \in UNION {{<<f, n>> : n \in 1..Len(files[f])} : f \in 1..Len(files)} :
        LET before == scan_lines(file_start(EmptyDict),
                                 SubSeq(files[pos[1]], 1, pos[2] - 1))
        IN /\ is_other(files[pos[1]][pos[2]])
           /\ strip(files[pos[1]][pos[2]]) # <<>>
           /\ before.cur_variation # None}

\* the opening and the variation that the line at pos belongs to
OwnerOf(pos) ==
    LET before == scan_lines(file_start(EmptyDict),
                             SubSeq(files[pos[1]], 1, pos[2] - 1))
    IN <<before.cur_opening, before.cur_variation>>

\* the directory with the line at pos replaced
Altered(pos, line) == [files EXCEPT ![pos[1]][pos[2]] = line]

\* the variations of opening o in dict, without those named as owner
Others(dict, o, owner) ==
    LET keep(v) == ~(o = owner[1] /\ v.name = owner[2])
    IN IF o \in DOMAIN dict THEN SelectSeq(dict[o], keep) ELSE <<>>

\* move text that takes the place of a line: a malformed one and a legal one
Replacements == {MovesIllegal, MovesQuiet}

\* C9: two texts that differ in one line of the move text of one variation give
\* the same result for every other variation, of the same and of other openings
C9_FailureStaysLocal ==
    Returned =>
        \A pos \in MoveTextPositions : \A line \in Replacements :
            LET other == parse_assets(Altered(pos, line))
            IN \A o \in (DOMAIN parsed) \cup (DOMAIN other) :
                  Others(parsed, o, OwnerOf(pos)) = Others(other, o, OwnerOf(pos))

\* a variation with no legal token is followed by a variation that parses
C9_Witness ==
    /\ Returned
    /\ files = << <<OpeningA, VariationV, MovesIllegal, VariationW, MovesQuiet>> >>
    /\ Len(parsed[header_name(OpeningA)]) = 2
    /\ Len(parsed[header_name(OpeningA)][2].moves_san) = 2

\* C10: in every variation of the output positions[0] is the initial position,
\* applying canonicalMoves[k] to positions[k] gives positions[k+1], and the board
\* that playback rebuilds by replaying the first k moves is positions[k]
C10_ReplayReproducesPositions ==
    Returned =>
        \A v \in AllVariations(parsed) :
            /\ v.states_fen[1] = Fen(NewBoard)
            /\ \A n \in 1..Len(v.moves_uci) :
                  /\ Fen(push(FromFen(v.states_fen[n]), from_uci(v.moves_uci[n])))
                        = v.states_fen[n + 1]
                  /\ Fen(replay(v, n)) = v.states_fen[n + 1]

\* a variation with a double step and the en passant capture that answers it
C10_Witness ==
    /\ Returned
    /\ files = << <<OpeningA, VariationV, MovesEnPassant>> >>
    /\ \E v \in AllVariations(parsed) :
          /\ Len(v.moves_uci) = 2
          /\ v.states_fen[2].ep = <<"b", "3">>

-----------------------------------------------------------------------------
(* Navigation *)

\* the active variation
ActiveVariation == openings[current_opening][current_variation_idx + 1]

\* the canvas shows exactly the pieces of position k of var
Shows(pieces, var, k) == pieces = FromFen(var.states_fen[k + 1]).pieces

\* the arrow of canonical move k (1-based) of var
ArrowOf(var, k) ==
    <<from_uci(var.moves_uci[k]).from_square, from_uci(var.moves_uci[k]).to_square>>

\* C11: once a variation has been selected, and until the next request, that
\* variation is active with the cursor at 0 and the canvas showing positions[0],
\* whatever state the selection came in; the callback of an earlier animation
\* changes neither
C11_SelectionHolds ==
    last_request = "select" =>
        /\ current_opening # None
        /\ current_move_index = 0
        /\ Shows(images_on_board, ActiveVariation, 0)

\* C12: a click on a move of a variation other than the active one jumps from
\* cursor 0 of the new variation: the first ply it animates is ply 1
C12_JumpStartsFromZero ==
    [][(SelectMove /\ <<current_opening', current_variation_idx'>>
                         # <<current_opening, current_variation_idx>>)
          => /\ jump'[1] = 0
             /\ started' # <<>>
             /\ started'[1] = 1]_vars

\* C13: a jump issued with the board at rest, and followed by no other request,
\* comes to rest again with the cursor on its clamped target
C13_JumpLands == []<>(timers = <<>> /\ current_move_index = jump[2])

\* C14: Next with the cursor on the last ply, Prev with the cursor at 0, and
\* both with no variation selected, change neither the cursor, the variation,
\* the canvas, the arrow nor the halo, and start no animation
C14_BoundaryStepsAreNoOps ==
    [][(\/ /\ \/ current_opening = None
               \/ current_move_index = Len(ActiveVariation.moves_uci)
            /\ OnNext
        \/ /\ \/ current_opening = None
               \/ current_move_index = 0
            /\ OnPrev)
          => UNCHANGED <<current_opening, current_variation_idx,
                         current_move_index, images_on_board, arrow_item,
                         check_item, current_board, timers, callbacks_owed>>]_vars

\* Next was pressed with the cursor on the last ply of a played variation
C14_Witness ==
    /\ last_request = "next"
    /\ current_opening # None
    /\ jump = <<Len(ActiveVariation.moves_uci), Len(ActiveVariation.moves_uci)>>
    /\ current_move_index = jump[2]
    /\ arrow_item # <<>>
    /\ timers = <<>>

\* C15: a jump from cursor a to target b calls animate_move for the plies
\* a+1, a+2, ... in that order, never with an earlier call still to call back,
\* Max(b - a, 0) times in all once the board is at rest
C15_SessionsOfAJump ==
    /\ callbacks_owed <= 1
    /\ \A n \in 1..Len(started) : started[n] = jump[1] + n
    /\ Len(started) <= Max(jump[2] - jump[1], 0)
    /\ timers = <<>> => Len(started) = Max(jump[2] - jump[1], 0)

\* C16: with the board at rest on the target k of the last jump, a click on
\* move k of the active variation leaves the cursor at k and changes neither the
\* canvas, the arrow nor the halo, and starts no animation
C16_JumpIdempotent ==
    [][(/\ timers = <<>>
        /\ callbacks_owed = 0
        /\ jump[2] = current_move_index
        /\ <<current_opening', current_variation_idx'>>
              = <<current_opening, current_variation_idx>>
        /\ jump'[2] = current_move_index
        /\ SelectMove)
          => /\ UNCHANGED <<current_move_index, images_on_board, arrow_item,
                            check_item, current_board, timers, callbacks_owed>>
             /\ started' = <<>>]_vars

\* move 2 of the played variation was clicked a second time
C16_Witness ==
    /\ last_request = "move"
    /\ jump = <<2, 2>>
    /\ current_move_index = 2
    /\ current_opening # None
    /\ arrow_item = ArrowOf(ActiveVariation, 2)
    /\ timers = <<>>

\* C17: a backward jump to t sets the cursor to t, shows positions[t] and draws
\* the arrow of canonicalMoves[t-1], or no arrow when t is 0
C17_BackwardJumpRenders ==
    [][(current_opening' # None /\ jump'[2] < jump'[1] /\ (OnPrev \/ SelectMove))
          => LET var == openings[current_opening'][current_variation_idx' + 1]
                 t == jump'[2]
             IN /\ current_move_index' = t
                /\ Shows(images_on_board', var, t)
                /\ arrow_item' = IF t > 0 THEN ArrowOf(var, t) ELSE <<>>
                /\ started' = <<>>]_vars

\* Prev after the whole of a variation was played: cursor N-1, arrow of move N-1
C17_Witness ==
    /\ last_request = "prev"
    /\ current_opening # None
    /\ jump = <<Len(ActiveVariation.moves_uci), Len(ActiveVariation.moves_uci) - 1>>
    /\ Len(ActiveVariation.moves_uci) >= 3
    /\ current_move_index = jump[2]
    /\ arrow_item = ArrowOf(ActiveVariation, jump[2])

\* C18: with a variation active the cursor is within 0..N of that variation
C18_CursorInRange ==
    current_opening # None =>
        /\ 0 <= current_move_index
        /\ current_move_index <= Len(ActiveVariation.moves_uci)

\* the square of the piece a move captures: behind the destination for an
\* en passant capture
CapturedSquare(board, move) ==
    IF is_en_passant(board, move)
    THEN square(square_file(move.to_square), square_rank(move.from_square))
    ELSE IF is_capture(board, move) THEN move.to_square ELSE NoSquare

\* C19: while a capturing move is animated the captured piece is on the canvas
\* until frame ANIM_FRAMES \div 2 has run, and off it from then on
C19_CapturedRemovedAtMidpoint ==
    \A n \in 1..Len(timers) :
        LET s == timers[n]
            cs == CapturedSquare(s.board_before, from_uci(s.uci))
        IN cs # NoSquare =>
              /\ s.i <= ANIM_FRAMES \div 2 => images_on_board[cs] # NoPiece
              /\ s.i > ANIM_FRAMES \div 2 => images_on_board[cs] = NoPiece

-----------------------------------------------------------------------------
(* Display tokens *)

\* tok stands in one of the lines with no annotation glyph following it
OccursUncut(tok, lines) ==
    \E k \in 1..Len(lines) : \E i \in 1..Len(lines[k]) :
        /\ i + Len(tok) - 1 <= Len(lines[k])
        /\ SubSeq(lines[k], i, i + Len(tok) - 1) = tok
        /\ \/ i + Len(tok) > Len(lines[k])
           \/ lines[k][i + Len(tok)] \notin Glyphs

\* a digit followed by a dot somewhere in tok
HasMoveNumber(tok) ==
    \E i \in 1..(Len(tok) - 1) : tok[i] \in Digits /\ tok[i + 1] = "."

\* C20: a flush stores each resolved token for display as it stands in the move
\* text, trailing !?+# glyphs included, while the move stored with it is the one
\* the engine resolves from the token without any trailing glyph; no move number,
\* comment or ... placeholder is among the display tokens
C20_DisplayKeepsAnnotations ==
    [][parsed' # parsed =>
          LET added == parsed'[cur_opening][Len(parsed'[cur_opening])]
          IN \A n \in 1..Len(added.moves_san) :
                LET tok == added.moves_san[n]
                    clean == strip_annotations(tok)
                    before == replay(added, n - 1)
                IN /\ OccursUncut(tok, cur_moves_lines)
                   /\ clean # <<>>
                   /\ clean[Len(clean)] \notin Glyphs
                   /\ \E g \in SeqsUpTo(Glyphs, Len(tok) - Len(clean)) : tok = clean \o g
                   /\ san_ok(before, clean)
                   /\ added.moves_uci[n] = uci(parse_san(before, clean))
                   /\ tok # <<".", ".", ".">>
                   /\ "{" \notin CharSet(tok)
                   /\ "}" \notin CharSet(tok)
                   /\ ~HasMoveNumber(tok)]_vars

\* move text with a move number, glyphs, a comment and placeholders was parsed
C20_Witness ==
    /\ Returned
    /\ files = << <<OpeningA, VariationV, MovesEnPassant>> >>
    /\ parsed[header_name(OpeningA)][1].moves_san
          = << <<"b", "4", "!", "?">>, <<"a", "x", "b", "3">> >>
    /\ Len(parsed[header_name(OpeningA)][1].states_fen) = 3

-----------------------------------------------------------------------------
(* The canvas against the cursor *)

\* C21: with a variation active and the board at rest (no frame pending, no
\* callback outstanding) the cursor is within the variation and the canvas shows
\* positions[cursor] of that variation, also after a click on move k of another
\* variation while the cursor is k
C21_CanvasShowsCursorPosition ==
    (current_opening # None /\ timers = <<>> /\ callbacks_owed = 0) =>
        /\ current_move_index \in 0..Len(ActiveVariation.moves_uci)
        /\ Shows(images_on_board, ActiveVariation, current_move_index)

\* the halo that position c of var asks for: the square of the king of the side
\* to move when that side is in check, none otherwise
HaloOf(var, c) ==
    LET position == FromFen(var.states_fen[c + 1])
    IN IF is_check(position) THEN king(position, position.turn) ELSE NoSquare

\* a step in which no pending `after` callback ran: those pending before are
\* still pending, in front of any new one
NoCallbackRan ==
    /\ Len(timers') >= Len(timers)
    /\ SubSeq(timers', 1, Len(timers)) = timers

\* C22: when the last frame of an animation has run, when a request has completed
\* plies without frames, and when a backward jump has landed, the halo is the one
\* that the position under the cursor asks for, in the variation being played;
\* after the selection of a variation and after a reload there is no halo
C22_HaloFollowsCheck ==
    [][/\ (/\ timers # <<>>
           /\ Head(timers).i >= ANIM_FRAMES
           /\ Tick)
          => check_item' = HaloOf(Head(timers).cb.var, current_move_index')
       /\ (/\ current_opening' # None
           /\ \/ jump'[2] < jump'[1]
              \/ jump'[1] < current_move_index'
           /\ NoCallbackRan
           /\ OnNext \/ OnPrev \/ SelectMove)
          => check_item' = HaloOf(openings[current_opening'][current_variation_idx' + 1],
                                  current_move_index')
       /\ (/\ last_request' \in {"select", "reload"}
           /\ NoCallbackRan
           /\ SelectVariation \/ ReloadAssets \/ ChooseAssetsFolder)
          => check_item' = NoSquare]_vars

\* the capture with check has been played to its end: the halo is on the king of
\* Black, who is to move
C22_Witness ==
    /\ current_opening # None
    /\ current_move_index = 3
    /\ timers = <<>>
    /\ callbacks_owed = 0
    /\ is_check(FromFen(ActiveVariation.states_fen[4]))
    /\ check_item # NoSquare
    /\ piece_at(current_board, check_item) = KingOf(FALSE)
    /\ ~current_board.turn

-----------------------------------------------------------------------------
(* The line scan, against the layout of the text *)

\* the opening that line h of the text t stands in: the name of the last
\* double-marker header above it, None without one
OpeningAt(t, h) ==
    LET above == {i \in 1..(h - 1) : is_opening_header(t[i])}
    IN IF above = {} THEN None
       ELSE header_name(strip(t[CHOOSE i \in above : \A j \in above : j <= i]))

\* the first header or separator below line h of t, or the end of t
EndOf(t, h) ==
    LET below == {i \in (h + 1)..Len(t) : ~is_other(t[i])}
    IN IF below = {} THEN Len(t) + 1
       ELSE CHOOSE i \in below : \A j \in below : i <= j

NonBlank(line) == strip(line) # <<>>

\* the move text of the variation whose header is line h of t: the non-blank
\* lines from the header to the next header or separator
BodyOf(t, h) ==
    LET body == SelectSeq(SubSeq(t, h + 1, EndOf(t, h) - 1), NonBlank)
    IN [n \in 1..Len(body) |-> rstrip(body[n], Whitespace)]

\* the openings after the variation headers of t from line h on are added to dict
RECURSIVE ExpectedFrom(_, _, _)
ExpectedFrom(dict, t, h) ==
    IF h > Len(t) THEN dict
    ELSE IF /\ is_variation_header(t[h])
            /\ OpeningAt(t, h) # None
            /\ BodyOf(t, h) # <<>>
         THEN ExpectedFrom(
                  setdefault_append(dict, OpeningAt(t, h),
                      variation_obj(header_name(strip(t[h])),
                          validate_from(extract_tokens(BodyOf(t, h)), 1, loop_start))),
                  t, h + 1)
         ELSE ExpectedFrom(dict, t, h + 1)

RECURSIVE ExpectedOf(_, _)
ExpectedOf(dict, fs) ==
    IF fs = <<>> THEN dict
    ELSE ExpectedOf(ExpectedFrom(dict, Head(fs), 1), Tail(fs))

\* C23: move text is pending only while a variation is open, and the result of
\* the scan is one variation per single-marker header that has move text between
\* it and the next header or separator, in the opening of the last double-marker
\* header above it; lines anywhere else contribute to no variation
C23_ScanFollowsLayout ==
    /\ cur_variation = None => cur_moves_lines = <<>>
    /\ Returned => parsed = ExpectedOf(EmptyDict, files)

\* a separator, then a second variation of the same opening
C23_Witness ==
    /\ Returned
    /\ files = << <<OpeningA, VariationV, MovesQuiet, SeparatorLine,
                    VariationW, MovesQuiet>> >>
    /\ Len(parsed[header_name(OpeningA)]) = 2
    /\ parsed[header_name(OpeningA)][2].name = header_name(VariationW)

=============================================================================
